---- MODULE Spec2Model ----
(***************************************************************************)
(* Model of the mug controller.                                            *)
(*                                                                         *)
(*   src/ble_tool.py          connect_and_monitor: connect, resolve the    *)
(*                            two temperature characteristics, run the     *)
(*                            read / decide / write loop, disconnect.      *)
(*                            find_target_device: scan until the target    *)
(*                            address is seen. set_target_temperature:     *)
(*                            encode a temperature and write it.           *)
(*   src/temp.devieslist.py   scan_and_select_device: the device list.     *)
(*                                                                         *)
(* Temperatures are kept in hundredths of a degree: the code divides the   *)
(* integer it reads by 100.0 and compares with 40.0, 50.0 and 0.0, which   *)
(* is the comparison of the integer with 4000, 5000 and 0.                 *)
(***************************************************************************)
EXTENDS Integers, Sequences, FiniteSets, TLC

VARIABLES
    \* ---- connect_and_monitor (src/ble_tool.py) ----
    pc,             \* position in connect_and_monitor
    is_connected,   \* client.is_connected
    target_char,    \* property set of the setpoint characteristic, or NoChar
    drink_char,     \* property set of the measured characteristic, or NoChar
    resolutions,    \* runs of the characteristic lookup in this session
    target_value,   \* bytes of the last setpoint read (<<>> before any)
    target_temp,    \* decoded setpoint, "Error" or "Not readable"
    drink_temp,     \* decoded measured value, "Error" or "Not readable"
    retval,         \* what connect_and_monitor returns
    \* ---- the peripheral (transport side) ----
    devTarget,      \* bytes the device holds as its setpoint
    devDrink,       \* bytes the device holds as its measured value
    \* ---- observation of the run (what a test double would record) ----
    entered,        \* BleakClient.__aenter__ returned (the connect completed)
    disconnects,    \* calls of disconnect (BleakClient.__aexit__)
    iter,           \* iterations of the control loop started
    writes,         \* the write calls issued in the current iteration
    prevWrites,     \* the write calls issued in the previous iteration
    reads,          \* reads issued in the current iteration
    failed,         \* a read or a write raised in the current iteration
    consecFail,     \* consecutive iterations whose write of one setpoint failed
    failSetpoint,   \* the bytes of that failing write
    notices,        \* status lines printed, by kind
    oob,            \* out-of-band change of the setpoint in the last sleep
    exitCause,      \* why the session ended
    cancelled,      \* CancelledError was delivered
    \* ---- scan_and_select_device (src/temp.devieslist.py) ----
    scan_pc,        \* position in scan_and_select_device
    devices,        \* the device list
    seen_addresses, \* the addresses already in the list
    last_scan_time, \* start time of the last scan
    now,            \* time.time()
    observed,       \* every sighting the scans returned, with its time
    \* ---- interactive_menu (src/temp.devieslist.py) ----
    selected_index, \* the cursor of the menu
    key,            \* what get_key returned last ("" before any)
    menu_result,    \* what the menu returned: <<>> for None, or <<entry>>
    \* ---- set_target_temperature and the read path (src/ble_tool.py) ----
    set_pc,         \* position: before, between and after the calls
    temperature_celsius, \* the argument, in thousandths of a degree
    byteorder,      \* the byte order of the encoding and the decoding
    temp_bytes,     \* the bytes built by the call (<<>> when none)
    set_result,     \* what the call returned
    set_writes,     \* the write calls the calls issued
    set_calls,      \* calls of set_target_temperature made
    set_device,     \* the bytes the device holds after the calls
    read_back,      \* the value decoded from set_device (hundredths)
    \* ---- find_target_device (src/ble_tool.py) ----
    find_pc,        \* position in find_target_device
    find_devices,   \* the result of the last scan
    find_scans,     \* scans started
    find_errors,    \* "Scan error" lines printed
    find_result     \* the device returned

sessionVars == <<pc, is_connected, target_char, drink_char, resolutions,
                 target_value,
                 target_temp, drink_temp, retval, devTarget, devDrink, entered,
                 disconnects, iter, writes, prevWrites, reads, failed,
                 consecFail, failSetpoint, notices, oob, exitCause, cancelled>>

menuVars == <<selected_index, key, menu_result>>

scanVars == <<scan_pc, devices, seen_addresses, last_scan_time, now, observed,
              menuVars>>

setVars == <<set_pc, temperature_celsius, byteorder, temp_bytes, set_result,
             set_writes, set_calls, set_device, read_back>>

findVars == <<find_pc, find_devices, find_scans, find_errors, find_result>>

vars == <<sessionVars, scanVars, setVars, findVars>>

----------------------------------------------------------------------------
\* Bounds of the model.

\* Iterations of the control loop that are explored.
MaxIter == 3

\* Sightings in the result of one scan.
MaxScanLen == 3
\* The clock value at which scan_and_select_device starts, and the last clock
\* value at which it still starts a loop iteration.
StartTime == 20
MaxClock == 45

\* The in-range temperatures, in hundredths: 0.00 to 100.00 degrees.
MaxCenti == 10000
\* Calls of set_target_temperature in one run.
MaxCalls == 2
\* Scans of find_target_device in one run, and devices in the result of one.
MaxScans == 3
MaxFindLen == 2

----------------------------------------------------------------------------
\* Program constants.

\* src/ble_tool.py:156 and :177, `drink_temp < 40.0`, `drink_temp > 40.0`.
Threshold == 4000
\* src/ble_tool.py:158, `target_temp != 50.0`.
HeatSetpoint == 5000
\* src/ble_tool.py:179, `target_temp != 0.0`.
OffSetpoint == 0
\* Variant: the two bytes in the other order (5000 as big-endian).
HeatBytesSwapped == <<19, 136>>
\* src/ble_tool.py:162, bytes([0x88, 0x13]).
HeatBytes == <<136, 19>>
\* src/ble_tool.py:182, bytes([0x00, 0x00]).
OffBytes == <<0, 0>>

\* A characteristic that was not found (target_char = None).
NoChar == {"<none>"}

\* The property sets a characteristic may advertise.
Properties == {"read", "write", "write-without-response"}
CharProps == SUBSET Properties

\* Values the peripheral may hold: 0.00, 50.00 and 60.00 degrees as a setpoint,
\* 35.00, 40.00 and 45.00 degrees as a measured value (little-endian).
SetpointBytes == {<<0, 0>>, <<136, 19>>, <<112, 23>>}
MeasuredBytes == {<<172, 13>>, <<160, 15>>, <<148, 17>>}

\* The status lines that are counted: "Target temperature characteristic not
\* found", "Drink temperature characteristic not found", "Target
\* characteristic doesn't support write operations", "Failed to set target
\* temperature" / "Failed to turn off heating". "persistent_fault" is the
\* event of the design that no line of the program prints.
NoticeKinds == {"target_not_found", "drink_not_found", "no_write_support",
                "write_failed", "persistent_fault"}

----------------------------------------------------------------------------
\* Pure helpers.

\* int.from_bytes(b, byteorder='little')
RECURSIVE FromBytesLittle(_)
FromBytesLittle(b) ==
    IF b = <<>> THEN 0 ELSE Head(b) + 256 * FromBytesLittle(Tail(b))

\* A value of target_temp / drink_temp: a number, or one of the two strings.
Num(v) == [isnum |-> TRUE, val |-> v, text |-> ""]
ErrorTemp == [isnum |-> FALSE, val |-> 0, text |-> "Error"]
NotReadable == [isnum |-> FALSE, val |-> 0, text |-> "Not readable"]

\* Variant: the bytes read are decoded as the comment at the heating write
\* describes them, big-endian.
RECURSIVE FromBytesBigEndian(_)
FromBytesBigEndian(b) ==
    IF b = <<>> THEN 0
    ELSE b[Len(b)] + 256 * FromBytesBigEndian(SubSeq(b, 1, Len(b) - 1))
DecodeTempBigEndian(b) ==
    [isnum |-> TRUE, val |-> FromBytesBigEndian(b), text |-> ""]

\* int.from_bytes(value, byteorder='little') / 100.0, in hundredths.
DecodeTemp(b) == Num(FromBytesLittle(b))

\* Variant: the control logic does not test the type of what was read.
IsNumberAlways(t) == TRUE

\* isinstance(x, (int, float))
IsNumber(t) == t.isnum

\* One more status line of kind k.
Notice(k) == [notices EXCEPT ![k] = @ + 1]

\* The value target_temp / drink_temp have before the first read.
Unset == [isnum |-> FALSE, val |-> 0, text |-> "unset"]

\* set_target_temperature and find_target_device are not running.
SetIdle ==
    /\ set_pc = "idle"
    /\ temperature_celsius = 0
    /\ byteorder = "little"
    /\ temp_bytes = <<>>
    /\ set_result = "none"
    /\ set_writes = <<>>
    /\ set_calls = 0
    /\ set_device = <<0, 0>>
    /\ read_back = 0

FindIdle ==
    /\ find_pc = "idle"
    /\ find_devices = <<>>
    /\ find_scans = 0
    /\ find_errors = 0
    /\ find_result = <<>>

----------------------------------------------------------------------------
\* connect_and_monitor.

Init ==
    /\ pc = "connect"
    /\ is_connected = FALSE
    /\ target_char = NoChar
    /\ drink_char = NoChar
    /\ resolutions = 0
    /\ target_value = <<>>
    /\ target_temp = Unset
    /\ drink_temp = Unset
    /\ retval = "none"
    /\ devTarget \in SetpointBytes
    /\ devDrink \in MeasuredBytes
    /\ entered = FALSE
    /\ disconnects = 0
    /\ iter = 0
    /\ writes = <<>>
    /\ prevWrites = <<>>
    /\ reads = <<>>
    /\ failed = FALSE
    /\ consecFail = 0
    /\ failSetpoint = <<>>
    /\ notices = [k \in NoticeKinds |-> 0]
    /\ oob = "no"
    /\ exitCause = "none"
    /\ cancelled = FALSE
    /\ scan_pc = "idle"
    /\ devices = <<>>
    /\ seen_addresses = {}
    /\ last_scan_time = 0
    /\ now = StartTime
    /\ observed = <<>>
    /\ selected_index = 0
    /\ key = ""
    /\ menu_result = <<>>
    /\ SetIdle
    /\ FindIdle

charVars == <<target_char, drink_char, resolutions>>
tempVars == <<target_value, target_temp, drink_temp>>
devVars == <<devTarget, devDrink>>
iterVars == <<iter, writes, prevWrites, reads, failed, oob>>
faultVars == <<consecFail, failSetpoint>>

\* Leave the `async with` block with return value r: __aexit__ runs next.
LeaveWith(r, cause) ==
    /\ pc' = "aexit"
    /\ retval' = r
    /\ exitCause' = cause

\* `async with BleakClient(device, timeout=CONNECTION_TIMEOUT) as client`:
\* __aenter__ connects and returns.
ConnectOk ==
    /\ pc = "connect"
    /\ pc' = "check"
    /\ entered' = TRUE
    /\ is_connected' \in BOOLEAN
    /\ UNCHANGED <<scanVars, setVars, findVars, charVars, tempVars, devVars,
                   iterVars, faultVars,
                   retval,
                   disconnects, notices, exitCause, cancelled>>

\* The connect raises (failure or timeout): `except Exception` returns False.
\* __aexit__ is not run for a context whose __aenter__ raised.
ConnectFail ==
    /\ pc = "connect"
    /\ pc' = "done"
    /\ retval' = "False"
    /\ exitCause' = "connect_failed"
    /\ UNCHANGED <<scanVars, setVars, findVars, charVars, tempVars, devVars,
                   iterVars, faultVars,
                   entered,
                   is_connected, disconnects, notices, cancelled>>

\* CancelledError while the connect is awaited: not an Exception, it leaves
\* connect_and_monitor.
ConnectCancelled ==
    /\ pc = "connect"
    /\ pc' = "done"
    /\ retval' = "CancelledError"
    /\ exitCause' = "cancelled"
    /\ cancelled' = TRUE
    /\ UNCHANGED <<scanVars, setVars, findVars, charVars, tempVars, devVars,
                   iterVars, faultVars,
                   entered,
                   is_connected, disconnects, notices>>

\* `if not client.is_connected: return False`
CheckConnected ==
    /\ pc = "check"
    /\ IF is_connected
       THEN /\ pc' = "discover"
            /\ UNCHANGED <<retval, exitCause>>
       ELSE LeaveWith("False", "not_connected")
    /\ UNCHANGED <<scanVars, setVars, findVars, charVars, tempVars, devVars,
                   iterVars, faultVars,
                   entered,
                   is_connected, disconnects, notices, cancelled>>

\* The loop over client.services that resolves target_char and drink_char,
\* and the two `return True` when one is missing.
Discover(tc, dc) ==
    /\ pc = "discover"
    /\ target_char' = tc
    /\ drink_char' = dc
    /\ resolutions' = resolutions + 1
    /\ IF tc = NoChar
       THEN /\ notices' = Notice("target_not_found")
            /\ LeaveWith("True", "no_chars")
       ELSE IF dc = NoChar
       THEN /\ notices' = Notice("drink_not_found")
            /\ LeaveWith("True", "no_chars")
       ELSE /\ pc' = "loop"
            /\ UNCHANGED <<notices, retval, exitCause>>
    /\ UNCHANGED <<scanVars, setVars, findVars, tempVars, devVars, iterVars,
                   faultVars, entered,
                   is_connected, disconnects, cancelled>>

\* Variant: the loop does not test the connection (`while True:`).
LoopConditionAlways(connected) == TRUE

\* `while client.is_connected:`, the test that starts every iteration.
LoopCondition(connected) == connected

\* `while client.is_connected:` holds: an iteration starts.
LoopEnter ==
    /\ pc = "loop"
    /\ LoopCondition(is_connected)
    /\ iter < MaxIter
    /\ pc' = "read_target"
    /\ iter' = iter + 1
    /\ prevWrites' = writes
    /\ writes' = <<>>
    /\ reads' = <<>>
    /\ failed' = FALSE
    /\ oob' = IF oob = "pending" THEN "seen" ELSE "no"
    /\ UNCHANGED <<scanVars, setVars, findVars, charVars, tempVars, devVars,
                   faultVars, entered,
                   retval,
                   is_connected, disconnects, notices, exitCause, cancelled>>

\* `while client.is_connected:` fails: the loop ends and `return True` runs.
LoopExit ==
    /\ pc = "loop"
    /\ ~LoopCondition(is_connected)
    /\ LeaveWith("True", "conn_lost")
    /\ UNCHANGED <<scanVars, setVars, findVars, charVars, tempVars, devVars,
                   iterVars, faultVars,
                   entered,
                   is_connected, disconnects, notices, cancelled>>

\* The position after a read that raised: the inner `except Exception` sets
\* "Error" and the iteration goes on with what follows the read.
AfterReadError(next) == next

\* "Read target temperature": read_gatt_char(target_char) succeeds (ok) or
\* raises, or the characteristic is not readable.
ReadTarget(ok) ==
    /\ pc = "read_target"
    /\ IF "read" \in target_char
       THEN /\ reads' = Append(reads, "target")
            /\ IF ok
               THEN /\ is_connected
                    /\ target_value' = devTarget
                    /\ target_temp' = DecodeTemp(devTarget)
                    /\ pc' = "read_drink"
                    /\ UNCHANGED failed
               ELSE /\ target_temp' = ErrorTemp
                    /\ failed' = TRUE
                    /\ pc' = AfterReadError("read_drink")
                    /\ UNCHANGED target_value
       ELSE /\ ok
            /\ target_temp' = NotReadable
            /\ pc' = "read_drink"
            /\ UNCHANGED <<reads, failed, target_value>>
    /\ UNCHANGED <<scanVars, setVars, findVars, charVars, drink_temp, devVars,
                   iter, writes,
                   prevWrites,
                   oob, faultVars, entered, retval, is_connected, disconnects,
                   notices, exitCause, cancelled>>

\* "Read current drink temperature".
ReadDrink(ok) ==
    /\ pc = "read_drink"
    /\ IF "read" \in drink_char
       THEN /\ reads' = Append(reads, "drink")
            /\ IF ok
               THEN /\ is_connected
                    /\ drink_temp' = DecodeTemp(devDrink)
                    /\ pc' = "control"
                    /\ UNCHANGED failed
               ELSE /\ drink_temp' = ErrorTemp
                    /\ failed' = TRUE
                    /\ pc' = AfterReadError("control")
       ELSE /\ ok
            /\ drink_temp' = NotReadable
            /\ pc' = "control"
            /\ UNCHANGED <<reads, failed>>
    /\ UNCHANGED <<scanVars, setVars, findVars, charVars, target_value,
                   target_temp, devVars,
                   iter, writes,
                   prevWrites, oob, faultVars, entered, retval, is_connected,
                   disconnects, notices, exitCause, cancelled>>

\* Variant: the decision compares the desired setpoint with the bytes the
\* controller wrote last instead of the setpoint it read.
DecisionFromMemory(dt, tt) ==
    LET last == IF writes # <<>> THEN writes[Len(writes)].data
                ELSE IF prevWrites # <<>> THEN prevWrites[Len(prevWrites)].data
                ELSE <<>>
    IN  IF ~(IsNumber(dt) /\ IsNumber(tt)) THEN "none"
        ELSE IF dt.val < Threshold
             THEN (IF last # HeatBytes THEN "heat" ELSE "none")
        ELSE IF dt.val > Threshold
             THEN (IF last # OffBytes THEN "off" ELSE "none")
        ELSE "none"

\* Variant: a measured value of exactly 40.0 counts as too cold (`<=`).
DecisionInclusive(dt, tt) ==
    IF ~(IsNumber(dt) /\ IsNumber(tt)) THEN "none"
    ELSE IF dt.val <= Threshold
         THEN (IF tt.val # HeatSetpoint THEN "heat" ELSE "none")
    ELSE (IF tt.val # OffSetpoint THEN "off" ELSE "none")

\* "Automatic temperature control logic": what the iteration decides from
\* the two values it read. "heat": set 50 degrees; "off": set 0 degrees.
Decision(dt, tt) ==
    IF ~(IsNumber(dt) /\ IsNumber(tt)) THEN "none"
    ELSE IF dt.val < Threshold
         THEN (IF tt.val # HeatSetpoint THEN "heat" ELSE "none")
    ELSE IF dt.val > Threshold
         THEN (IF tt.val # OffSetpoint THEN "off" ELSE "none")
    ELSE "none"

\* Variant: the heating-off branch checks the "write" property as well.
WriteIssuedChecksBoth(d, props) == d \in {"heat", "off"} /\ "write" \in props

\* Whether the write of a decision is issued: the heating branch checks
\* `"write" in target_char.properties`, the heating-off branch checks nothing.
WriteIssued(d, props) ==
    IF d = "heat" THEN "write" \in props ELSE d = "off"

\* The bytes written for a decision.
WriteBytes(d) == IF d = "heat" THEN HeatBytes ELSE OffBytes

\* client.write_gatt_char(target_char, b, response=True): both branches ask
\* for an acknowledged write.
WriteCall(b) == [data |-> b, response |-> TRUE]

\* Variant: a write that raises is issued again at once.
AfterWriteErrorRetries == "control"

\* Variant: a write that raises is not caught and ends the loop.
AfterWriteErrorLeaves == "aexit"

\* The position after a write that raised: the `except Exception` of the
\* branch prints and the iteration goes on to the sleep.
AfterWriteError == "sleep"

\* The iteration issues write_gatt_char(target_char, bytes, response=True),
\* which succeeds (ok) or raises.
ControlWrite(ok) ==
    LET d == Decision(drink_temp, target_temp)
        b == WriteBytes(d)
    IN  /\ pc = "control"
        /\ d # "none"
        /\ WriteIssued(d, target_char)
        /\ writes' = Append(writes, WriteCall(b))
        /\ IF ok
           THEN /\ is_connected
                /\ devTarget' = b
                /\ consecFail' = 0
                /\ failSetpoint' = <<>>
                /\ pc' = "sleep"
                /\ UNCHANGED <<notices, failed>>
           ELSE /\ notices' = Notice("write_failed")
                /\ failed' = TRUE
                /\ consecFail' = IF failSetpoint = b THEN consecFail + 1 ELSE 1
                /\ failSetpoint' = b
                /\ pc' = AfterWriteError
                /\ UNCHANGED devTarget
        /\ UNCHANGED <<scanVars, setVars, findVars, charVars, tempVars,
                       devDrink, iter,
                       prevWrites, reads,
                       oob, entered, retval, is_connected, disconnects,
                       exitCause, cancelled>>

\* The heating branch without "write" among the properties: the line
\* "Target characteristic doesn't support write operations" and no write.
ControlNoSupport ==
    LET d == Decision(drink_temp, target_temp)
    IN  /\ pc = "control"
        /\ d # "none"
        /\ ~WriteIssued(d, target_char)
        /\ notices' = Notice("no_write_support")
        /\ consecFail' = 0
        /\ failSetpoint' = <<>>
        /\ pc' = "sleep"
        /\ UNCHANGED <<scanVars, setVars, findVars, charVars, tempVars,
                       devVars, iterVars,
                       entered, retval,
                       is_connected, disconnects, exitCause, cancelled>>

\* Nothing to write: a value is not a number, the measured value is 40.0,
\* or the device already holds the decided setpoint.
ControlNoWrite ==
    /\ pc = "control"
    /\ Decision(drink_temp, target_temp) = "none"
    /\ consecFail' = 0
    /\ failSetpoint' = <<>>
    /\ pc' = "sleep"
    /\ UNCHANGED <<scanVars, setVars, findVars, charVars, tempVars, devVars,
                   iterVars, entered,
                   retval,
                   is_connected, disconnects, notices, exitCause, cancelled>>

\* Variant: the characteristics are looked up again after every sleep.
AfterSleepResolves == "discover"

\* The position after the sleep: the `while` test of the next iteration.
AfterSleep == "loop"

\* `await asyncio.sleep(3)` completes.
Sleep ==
    /\ pc = "sleep"
    /\ pc' = AfterSleep
    /\ UNCHANGED <<scanVars, setVars, findVars, charVars, tempVars, devVars,
                   iterVars, faultVars,
                   entered,
                   retval, is_connected, disconnects, notices, exitCause,
                   cancelled>>

LoopPcs == {"loop", "read_target", "read_drink", "control", "sleep"}

\* Variant: the handler of CancelledError goes on with the loop (`continue`).
AfterCancelledGoesOn == "loop"

\* The position after CancelledError was caught: `break` ends the loop and
\* the `async with` block is left.
AfterCancelled == "aexit"

\* CancelledError delivered at an await of the loop (a read, the write, the
\* sleep): the inner `except Exception` does not catch it, the loop's
\* `except asyncio.CancelledError: break` does, and `return True` follows.
LoopCancelled ==
    /\ \/ /\ pc = "read_target"
          /\ "read" \in target_char
          /\ reads' = Append(reads, "target")
          /\ UNCHANGED writes
       \/ /\ pc = "read_drink"
          /\ "read" \in drink_char
          /\ reads' = Append(reads, "drink")
          /\ UNCHANGED writes
       \/ /\ pc = "control"
          /\ Decision(drink_temp, target_temp) # "none"
          /\ WriteIssued(Decision(drink_temp, target_temp), target_char)
          /\ writes' = Append(writes,
                    WriteCall(WriteBytes(Decision(drink_temp, target_temp))))
          /\ UNCHANGED reads
       \/ /\ pc = "sleep"
          /\ UNCHANGED <<reads, writes>>
    /\ cancelled' = TRUE
    /\ pc' = AfterCancelled
    /\ retval' = "True"
    /\ exitCause' = "cancelled"
    /\ UNCHANGED <<scanVars, setVars, findVars, charVars, tempVars, devVars,
                   iter, prevWrites,
                   failed, oob,
                   faultVars, entered, is_connected, disconnects, notices>>

\* Variant: the cleanup is skipped when the loop was cancelled.
ExitDisconnectsUnlessCancelled == ~cancelled

\* Whether leaving the `async with` block calls disconnect (__aexit__ does,
\* once, however the block was left).
ExitDisconnects == TRUE

\* BleakClient.__aexit__: disconnect. When it raises, the function's
\* `except Exception` turns the result into False.
AExit(ok) ==
    /\ pc = "aexit"
    /\ pc' = "done"
    /\ disconnects' = IF ExitDisconnects THEN disconnects + 1 ELSE disconnects
    /\ is_connected' = FALSE
    /\ retval' = IF ok THEN retval ELSE "False"
    /\ UNCHANGED <<scanVars, setVars, findVars, charVars, tempVars, devVars,
                   iterVars, faultVars,
                   entered,
                   notices, exitCause, cancelled>>

----------------------------------------------------------------------------
\* The peripheral and the link, as the transport shows them.

\* The connection is lost while the loop runs.
ConnectionLost ==
    /\ pc \in LoopPcs
    /\ is_connected
    /\ is_connected' = FALSE
    /\ UNCHANGED <<scanVars, setVars, findVars, pc, charVars, tempVars,
                   devVars, iterVars,
                   faultVars,
                   entered, retval, disconnects, notices, exitCause, cancelled>>

\* The drink warms up or cools down while the loop sleeps.
DrinkChanges(b) ==
    /\ pc = "sleep"
    /\ b # devDrink
    /\ devDrink' = b
    /\ UNCHANGED <<scanVars, setVars, findVars, pc, charVars, tempVars,
                   devTarget, iterVars,
                   faultVars,
                   entered, retval, is_connected, disconnects, notices,
                   exitCause, cancelled>>

\* The setpoint is changed on the device by someone else while the loop
\* sleeps.
OutOfBandSetpoint(b) ==
    /\ pc = "sleep"
    /\ oob # "pending"
    /\ b # devTarget
    /\ devTarget' = b
    /\ oob' = "pending"
    /\ UNCHANGED <<scanVars, setVars, findVars, pc, charVars, tempVars,
                   devDrink, iter, writes,
                   prevWrites,
                   reads, failed, faultVars, entered, retval, is_connected,
                   disconnects, notices, exitCause, cancelled>>

DrinkCharProps == {{}, {"read"}}

Next ==
    \/ ConnectOk
    \/ ConnectFail
    \/ ConnectCancelled
    \/ CheckConnected
    \/ \E tc \in CharProps \cup {NoChar}, dc \in DrinkCharProps \cup {NoChar} :
           Discover(tc, dc)
    \/ LoopEnter
    \/ LoopExit
    \/ \E ok \in BOOLEAN : ReadTarget(ok)
    \/ \E ok \in BOOLEAN : ReadDrink(ok)
    \/ \E ok \in BOOLEAN : ControlWrite(ok)
    \/ ControlNoSupport
    \/ ControlNoWrite
    \/ Sleep
    \/ LoopCancelled
    \/ \E ok \in BOOLEAN : AExit(ok)
    \/ ConnectionLost
    \/ \E b \in MeasuredBytes : DrinkChanges(b)
    \/ \E b \in SetpointBytes : OutOfBandSetpoint(b)

Spec == Init /\ [][Next]_vars

\* A step of connect_and_monitor itself, once the connect has returned: every
\* statement runs to the next await, and every await (a read, a write, the
\* sleep, the disconnect) returns or raises.
ProgramStep ==
    \/ CheckConnected
    \/ \E tc \in CharProps \cup {NoChar}, dc \in DrinkCharProps \cup {NoChar} :
           Discover(tc, dc)
    \/ LoopEnter
    \/ LoopExit
    \/ \E ok \in BOOLEAN : ReadTarget(ok)
    \/ \E ok \in BOOLEAN : ReadDrink(ok)
    \/ \E ok \in BOOLEAN : ControlWrite(ok)
    \/ ControlNoSupport
    \/ ControlNoWrite
    \/ Sleep
    \/ \E ok \in BOOLEAN : AExit(ok)

\* The session with a setpoint that only the controller writes: every step
\* of Next but the change of the setpoint by someone else.
FairNext ==
    \/ ConnectOk
    \/ ConnectFail
    \/ ConnectCancelled
    \/ ProgramStep
    \/ LoopCancelled
    \/ ConnectionLost
    \/ \E b \in MeasuredBytes : DrinkChanges(b)

\* connect_and_monitor run by the event loop: the coroutine is resumed
\* whenever it can go on.
FairSpec == Init /\ [][FairNext]_vars /\ WF_vars(ProgramStep)

----------------------------------------------------------------------------
\* scan_and_select_device (src/temp.devieslist.py).

\* src/temp.devieslist.py:156, scan_interval.
scan_interval == 10
\* src/temp.devieslist.py:167, BleakScanner.discover(timeout=5.0).
ScanTimeout == 5
\* src/temp.devieslist.py:193, asyncio.sleep(1).
ScanSleep == 1

Addresses == {"A1", "A2"}
\* Advertised names; "" stands for a device without a name (None).
Names == {"", "Mug", "Ember"}

\* One device of a scan result (a BLEDevice).
Sightings == [address : Addresses, name : Names]

\* The results a scan may return: the sightings of one scan period.
RECURSIVE SeqsUpTo(_, _)
SeqsUpTo(S, n) ==
    IF n = 0 THEN {<<>>}
    ELSE LET shorter == SeqsUpTo(S, n - 1)
         IN  shorter \cup {Append(q, x) : q \in shorter, x \in S}

ScanResults == SeqsUpTo(Sightings, MaxScanLen)

\* `device.name or 'Unknown'`
DisplayName(name) == IF name = "" THEN "Unknown" ELSE name

\* The entry built for a device first seen at current_time.
DeviceInfo(device, current_time) ==
    [name |-> DisplayName(device.name), address |-> device.address,
     device |-> device, discovered |-> current_time]

\* Variant: a device seen again gets another entry.
OnSeenAgainAppends(devs, device, current_time) ==
    Append(devs, DeviceInfo(device, current_time))

\* What the loop body does with a device whose address was seen before:
\* nothing, the entry stays as it was made.
OnSeenAgain(devs, device, current_time) == devs

\* `for device in current_devices:` with the `not in seen_addresses` test,
\* the append and the add. Gives the new <<devices, seen_addresses>>.
RECURSIVE AddNewDevices(_, _, _, _)
AddNewDevices(devs, seen, current_devices, current_time) ==
    IF current_devices = <<>> THEN <<devs, seen>>
    ELSE LET device == Head(current_devices)
         IN  IF device.address \notin seen
             THEN AddNewDevices(Append(devs, DeviceInfo(device, current_time)),
                                seen \cup {device.address},
                                Tail(current_devices), current_time)
             ELSE AddNewDevices(OnSeenAgain(devs, device, current_time), seen,
                                Tail(current_devices), current_time)

\* The sightings of a scan result with the time of the scan, for `observed`.
Stamped(current_devices, t) ==
    [i \in 1..Len(current_devices) |->
        [address |-> current_devices[i].address,
         name |-> current_devices[i].name, time |-> t]]

ScanInit ==
    /\ scan_pc = "scan_loop"
    /\ devices = <<>>
    /\ seen_addresses = {}
    /\ last_scan_time = 0
    /\ now = StartTime
    /\ observed = <<>>
    /\ selected_index = 0
    /\ key = ""
    /\ menu_result = <<>>

\* A loop iteration in which a scan is due: discover, add the new devices,
\* then show the menu when the list is not empty, else sleep.
ScanIteration(current_devices) ==
    LET current_time == now
        merged == AddNewDevices(devices, seen_addresses, current_devices,
                                current_time)
    IN  /\ scan_pc = "scan_loop"
        /\ now <= MaxClock
        /\ current_time - last_scan_time >= scan_interval
        /\ devices' = merged[1]
        /\ seen_addresses' = merged[2]
        /\ observed' = observed \o Stamped(current_devices, current_time)
        /\ last_scan_time' = current_time
        /\ IF merged[1] # <<>>
           THEN /\ scan_pc' = "menu"
                /\ selected_index' = 0
                /\ now' = now + ScanTimeout
           ELSE /\ scan_pc' = "scan_loop"
                /\ now' = now + ScanTimeout + ScanSleep
                /\ UNCHANGED selected_index
        /\ UNCHANGED <<sessionVars, setVars, findVars, key, menu_result>>

\* A loop iteration in which no scan is due: the list is empty, sleep.
WaitIteration ==
    /\ scan_pc = "scan_loop"
    /\ now <= MaxClock
    /\ ~(now - last_scan_time >= scan_interval)
    /\ IF devices # <<>>
       THEN /\ scan_pc' = "menu"
            /\ selected_index' = 0
            /\ UNCHANGED now
       ELSE /\ scan_pc' = "scan_loop"
            /\ now' = now + ScanSleep
            /\ UNCHANGED selected_index
    /\ UNCHANGED <<sessionVars, setVars, findVars, devices, seen_addresses,
                   last_scan_time, observed, key, menu_result>>

\* BleakScanner.discover raises: "Unexpected scan error" and `return None`.
ScanRaises ==
    /\ scan_pc = "scan_loop"
    /\ now <= MaxClock
    /\ now - last_scan_time >= scan_interval
    /\ scan_pc' = "returned_none"
    /\ now' = now + ScanTimeout
    /\ UNCHANGED <<sessionVars, setVars, findVars, devices, seen_addresses,
                   last_scan_time, observed, menuVars>>

\* interactive_menu (src/temp.devieslist.py), entered by
\* `return interactive_menu(devices)` with a list that is not empty.

\* What sys.stdin.read(1) may deliver to one call of get_key, character by
\* character (the Unix branch): letters in both cases, the two Enter
\* characters, digits, "superscript-2" for the one character U+00B2, "ctrl-c"
\* for U+0003 (raw mode delivers it as a character), "esc" for U+001B alone
\* or at the head of an escape sequence, and nothing at the end of input.
RawInputs ==
    {<<"q">>, <<"Q">>, <<"\r">>, <<"\n">>, <<"w">>, <<"W">>, <<"s">>, <<"S">>,
     <<"r">>, <<"x">>, <<"0">>, <<"1">>, <<"2">>, <<"9">>,
     <<"superscript-2">>, <<"ctrl-c">>, <<>>,
     <<"esc", "[", "A">>, <<"esc", "[", "B">>, <<"esc", "[", "C">>,
     <<"esc", "[", "D">>, <<"esc", "[", "H">>, <<"esc", "O">>}

\* str.lower() on one character.
Lower(ch) ==
    CASE ch = "Q" -> "q"
      [] ch = "W" -> "w"
      [] ch = "S" -> "s"
      [] OTHER -> ch

\* get_key(): the character read, in lower case, or the name of an arrow key
\* for ESC [ A/B/C/D; any other escape sequence gives ESC itself.
GetKey(raw) ==
    IF raw = <<>> THEN ""
    ELSE IF raw[1] = "esc"
         THEN IF Len(raw) >= 3 /\ raw[2] = "["
              THEN CASE raw[3] = "A" -> "up"
                     [] raw[3] = "B" -> "down"
                     [] raw[3] = "C" -> "right"
                     [] raw[3] = "D" -> "left"
                     [] OTHER -> "esc"
              ELSE "esc"
    ELSE Lower(raw[1])

\* key.isdigit(): true of the decimal digits and of U+00B2 as well.
IsDigit(k) ==
    k \in {"0", "1", "2", "3", "4", "5", "6", "7", "8", "9", "superscript-2"}

\* int(key) raises ValueError for U+00B2.
IntRaises(k) == k = "superscript-2"

\* int(key) for a decimal digit.
IntOf(k) ==
    CASE k = "0" -> 0 [] k = "1" -> 1 [] k = "2" -> 2 [] k = "3" -> 3
      [] k = "4" -> 4 [] k = "5" -> 5 [] k = "6" -> 6 [] k = "7" -> 7
      [] k = "8" -> 8 [] k = "9" -> 9

\* `max(0, selected_index - 1)`
MoveUp(i) == IF i - 1 > 0 THEN i - 1 ELSE 0

\* Variant: the cursor moves down without the clamp.
MoveDownUnclamped(i, n) == i + 1

\* `min(len(devices) - 1, selected_index + 1)`
MoveDown(i, n) == IF i + 1 < n - 1 THEN i + 1 ELSE n - 1

\* `0 <= num < len(devices)`
ValidIndex(i, n) == 0 <= i /\ i < n

\* The menu returns r (<<>> for None) and scan_and_select_device returns it.
MenuReturn(r) ==
    /\ scan_pc' = "returned"
    /\ menu_result' = r
    /\ UNCHANGED selected_index

\* The menu goes on with the cursor at i.
MenuStay(i) ==
    /\ selected_index' = i
    /\ UNCHANGED <<scan_pc, menu_result>>

\* One turn of the menu loop: get_key returns and the key is handled.
MenuKey(raw) ==
    LET k == GetKey(raw)
        n == Len(devices)
    IN  /\ scan_pc = "menu"
        /\ key' = k
        /\ IF k = "q" THEN MenuReturn(<<>>)
           ELSE IF k \in {"\r", "\n"}
                THEN IF ValidIndex(selected_index, n)
                     THEN MenuReturn(<<devices[selected_index + 1]>>)
                     ELSE MenuStay(selected_index)
           ELSE IF k \in {"w", "up"} THEN MenuStay(MoveUp(selected_index))
           ELSE IF k \in {"s", "down"}
                THEN MenuStay(MoveDown(selected_index, n))
           ELSE IF k = "r" THEN MenuStay(selected_index)
           ELSE IF IsDigit(k)
                THEN IF IntRaises(k) THEN MenuStay(selected_index)
                     ELSE IF ValidIndex(IntOf(k), n)
                          THEN MenuReturn(<<devices[IntOf(k) + 1]>>)
                          ELSE MenuStay(selected_index)
           ELSE MenuStay(selected_index)
        /\ UNCHANGED <<sessionVars, setVars, findVars, devices,
                       seen_addresses, last_scan_time, now, observed>>

\* KeyboardInterrupt while the key is awaited: `return None`.
MenuInterrupt ==
    /\ scan_pc = "menu"
    /\ MenuReturn(<<>>)
    /\ UNCHANGED <<sessionVars, setVars, findVars, devices, seen_addresses,
                   last_scan_time, now, observed, key>>

\* get_key raises an Exception (the terminal cannot be set to raw mode):
\* "Input error", a pause, and the loop goes on.
MenuInputError ==
    /\ scan_pc = "menu"
    /\ key' = ""
    /\ MenuStay(selected_index)
    /\ UNCHANGED <<sessionVars, setVars, findVars, devices, seen_addresses,
                   last_scan_time, now, observed>>

\* signal_handler runs while the menu is shown: sys.exit(0) raises
\* SystemExit, which no handler of the menu catches; nothing is returned.
MenuExit ==
    /\ scan_pc = "menu"
    /\ scan_pc' = "exited"
    /\ UNCHANGED <<sessionVars, setVars, findVars, devices, seen_addresses,
                   last_scan_time, now, observed, menuVars>>

NextMenu ==
    \/ \E raw \in RawInputs : MenuKey(raw)
    \/ MenuInterrupt
    \/ MenuInputError
    \/ MenuExit

\* scan_and_select_device up to the point where it shows the menu.
NextScan ==
    \/ \E current_devices \in ScanResults : ScanIteration(current_devices)
    \/ WaitIteration
    \/ ScanRaises

\* The session variables while only the scan runs.
SessionIdle ==
    /\ pc = "idle"
    /\ is_connected = FALSE
    /\ target_char = NoChar
    /\ drink_char = NoChar
    /\ resolutions = 0
    /\ target_value = <<>>
    /\ target_temp = Unset
    /\ drink_temp = Unset
    /\ retval = "none"
    /\ devTarget = OffBytes
    /\ devDrink = <<160, 15>>
    /\ entered = FALSE
    /\ disconnects = 0
    /\ iter = 0
    /\ writes = <<>>
    /\ prevWrites = <<>>
    /\ reads = <<>>
    /\ failed = FALSE
    /\ consecFail = 0
    /\ failSetpoint = <<>>
    /\ notices = [k \in NoticeKinds |-> 0]
    /\ oob = "no"
    /\ exitCause = "none"
    /\ cancelled = FALSE

InitScan == SessionIdle /\ ScanInit /\ SetIdle /\ FindIdle

SpecScan == InitScan /\ [][NextScan]_vars

\* interactive_menu as scan_and_select_device calls it: with the list its
\* first scan that found a device has made.
InitMenu ==
    /\ SessionIdle
    /\ SetIdle
    /\ FindIdle
    /\ \E current_devices \in ScanResults \ {<<>>} :
          LET merged == AddNewDevices(<<>>, {}, current_devices, StartTime)
          IN  /\ devices = merged[1]
              /\ seen_addresses = merged[2]
              /\ observed = Stamped(current_devices, StartTime)
    /\ last_scan_time = StartTime
    /\ now = StartTime + ScanTimeout
    /\ scan_pc = "menu"
    /\ selected_index = 0
    /\ key = ""
    /\ menu_result = <<>>

SpecMenu == InitMenu /\ [][NextMenu]_vars

----------------------------------------------------------------------------
\* set_target_temperature (src/ble_tool.py) and the read path that decodes
\* what it wrote.
\*
\* temperature_celsius is a Python float. The model holds it in thousandths
\* of a degree and computes `int(temperature_celsius * 100)` as IEEE-754
\* double arithmetic computes it. For a multiple k of 0.01 the double nearest
\* to k/100 is (k + e / 2^s) / 100 with s = 52 - floor(log2(k/100)) and
\* -50 < e <= 50; the product with 100 rounds to k or to the double just
\* below k, and int() then gives k or k - 1.

\* floor(log2(k / 100)) for k >= 1.
RECURSIVE Log2Of100th(_, _)
Log2Of100th(k, E) ==
    IF E >= 0
    THEN (IF 100 * 2 ^ (E + 1) <= k THEN Log2Of100th(k, E + 1) ELSE E)
    ELSE (IF k * 2 ^ (0 - E) >= 100 THEN E ELSE Log2Of100th(k, E - 1))

BinExp100(k) == IF k >= 100 THEN Log2Of100th(k, 0) ELSE Log2Of100th(k, -1)

\* floor(log2(k)) for k >= 1.
RECURSIVE Log2Floor(_)
Log2Floor(k) == IF k < 2 THEN 0 ELSE 1 + Log2Floor(k \div 2)

\* 2^n mod 100.
RECURSIVE Pow2Mod100(_)
Pow2Mod100(n) == IF n = 0 THEN 1 ELSE (2 * Pow2Mod100(n - 1)) % 100

\* The digits of the significand of the double nearest to k/100.
SigBits(k) == 52 - BinExp100(k)

\* e of the double nearest to k/100, (k + e / 2^SigBits(k)) / 100: what
\* rounding k/100 to 53 bits adds, in units of 2^-SigBits(k) hundredths.
RoundErr(k) ==
    LET r == ((k % 100) * Pow2Mod100(SigBits(k))) % 100
    IN  IF r < 50 THEN 0 - r ELSE 100 - r

\* int((k/100) * 100) for k >= 1: the product rounds below k when the error
\* is more than half a unit in the last place of the doubles below k.
ScaledHundredths(k) ==
    LET d == Log2Floor(k) - BinExp100(k)
        half == IF 2 ^ Log2Floor(k) = k THEN 2 ^ (d - 2) ELSE 2 ^ (d - 1)
    IN  IF RoundErr(k) < 0 - half THEN k - 1 ELSE k

\* int(temperature_celsius * 100) for an argument of t thousandths: int()
\* truncates towards zero.
TempValue(t) ==
    IF t = 0 THEN 0
    ELSE IF t % 10 = 0
         THEN (IF t > 0 THEN ScaledHundredths(t \div 10)
               ELSE 0 - ScaledHundredths((0 - t) \div 10))
    ELSE IF t > 0 THEN t \div 10 ELSE 0 - ((0 - t) \div 10)

\* Whether temp_value.to_bytes(2, ...) raises OverflowError.
ToBytesRaises(n) == n < 0 \/ n > 65535

\* n.to_bytes(2, byteorder=order)
ToBytes2(n, order) ==
    IF order = "little" THEN <<n % 256, n \div 256>>
    ELSE <<n \div 256, n % 256>>

RECURSIVE Reversed(_)
Reversed(b) == IF b = <<>> THEN <<>> ELSE Append(Reversed(Tail(b)), Head(b))

\* int.from_bytes(b, byteorder=order)
FromBytes(b, order) ==
    IF order = "little" THEN FromBytesLittle(b)
    ELSE FromBytesLittle(Reversed(b))

\* client.write_gatt_char(target_char, temp_bytes, response=False)
SetWriteCall(b) == [data |-> b, response |-> FALSE]

\* The arguments tried: every multiple of 0.01 from 0.00 to 100.00, and
\* -0.29, -0.01, -0.009, 655.35, 655.355, 655.36 and 700.0.
EdgeInputs == {-290, -10, -9, 655350, 655355, 655360, 700000}
SetInputs == {10 * k : k \in 0..MaxCenti} \cup EdgeInputs
\* The argument of a later call: 50.0.
LaterInputs == {50000}

\* The scan variables while scan_and_select_device does not run.
ScanIdle ==
    /\ scan_pc = "idle"
    /\ devices = <<>>
    /\ seen_addresses = {}
    /\ last_scan_time = 0
    /\ now = StartTime
    /\ observed = <<>>
    /\ selected_index = 0
    /\ key = ""
    /\ menu_result = <<>>

InitSet ==
    /\ SessionIdle
    /\ ScanIdle
    /\ FindIdle
    /\ set_pc = "ready"
    /\ temperature_celsius = 0
    /\ byteorder \in {"little", "big"}
    /\ temp_bytes = <<>>
    /\ set_result = "none"
    /\ set_writes = <<>>
    /\ set_calls = 0
    /\ set_device = <<0, 0>>
    /\ read_back = 0

\* One call of set_target_temperature(client, target_char, t): scale,
\* convert to two bytes (OverflowError goes to `except Exception`, which
\* returns False), write without response (ok, or it raises: False).
SetTargetTemperature(t, ok) ==
    LET temp_value == TempValue(t)
    IN  /\ set_pc = "ready"
        /\ set_calls < MaxCalls
        /\ set_calls' = set_calls + 1
        /\ temperature_celsius' = t
        /\ set_pc' = "returned"
        /\ IF ToBytesRaises(temp_value)
           THEN /\ ok
                /\ set_result' = "False"
                /\ UNCHANGED <<temp_bytes, set_writes, set_device>>
           ELSE /\ temp_bytes' = ToBytes2(temp_value, byteorder)
                /\ set_writes' = Append(set_writes,
                                        SetWriteCall(temp_bytes'))
                /\ set_result' = IF ok THEN "True" ELSE "False"
                /\ set_device' = IF ok THEN temp_bytes' ELSE set_device
        /\ UNCHANGED <<sessionVars, scanVars, findVars, byteorder, read_back>>

\* The read path on the setpoint characteristic: read_gatt_char and
\* int.from_bytes(value, byteorder) / 100.0, kept in hundredths.
ReadBack ==
    /\ set_pc = "returned"
    /\ set_pc' = "ready"
    /\ read_back' = FromBytes(set_device, byteorder)
    /\ UNCHANGED <<sessionVars, scanVars, findVars, temperature_celsius,
                   byteorder, temp_bytes, set_result, set_writes, set_calls,
                   set_device>>

NextSet ==
    \/ \E t \in (IF set_calls = 0 THEN SetInputs ELSE LaterInputs),
          ok \in BOOLEAN : SetTargetTemperature(t, ok)
    \/ ReadBack

SpecSet == InitSet /\ [][NextSet]_vars

----------------------------------------------------------------------------
\* find_target_device (src/ble_tool.py).

\* src/ble_tool.py:14.
TARGET_DEVICE_ADDRESS == "C0AFF08D-F255-248A-1317-30DE4080E377"

\* The addresses a scan may report: the target's, the same in lower case
\* (another string), and another device's.
FindAddresses == {TARGET_DEVICE_ADDRESS,
                  "c0aff08d-f255-248a-1317-30de4080e377",
                  "5F2C9E10-7A44-4B0E-9D31-0C1B2A3D4E5F"}
FindNames == {"", "Ember"}

\* The results BleakScanner.discover may return.
FoundDevices == [address : FindAddresses, name : FindNames]
FindScanResults == SeqsUpTo(FoundDevices, MaxFindLen)

\* Variant: the device is recognised by its advertised name.
TargetMatchByName(device) == device.name = "Ember"

\* `device.address == TARGET_DEVICE_ADDRESS`
TargetMatch(device) == device.address = TARGET_DEVICE_ADDRESS

\* `for device in devices: if ...: return device`: the first device that
\* matches, as a sequence of one, or <<>> when the loop ends without one.
RECURSIVE FirstMatch(_)
FirstMatch(ds) ==
    IF ds = <<>> THEN <<>>
    ELSE IF TargetMatch(Head(ds)) THEN <<Head(ds)>>
    ELSE FirstMatch(Tail(ds))

InitFind ==
    /\ SessionIdle
    /\ ScanIdle
    /\ SetIdle
    /\ find_pc = "scan"
    /\ find_devices = <<>>
    /\ find_scans = 0
    /\ find_errors = 0
    /\ find_result = <<>>

\* BleakScanner.discover returns ds; the `for` loop returns the target or
\* ends, "Target device not found, retrying..." is printed and the sleep
\* starts.
FindScan(ds) ==
    /\ find_pc = "scan"
    /\ find_scans < MaxScans
    /\ find_scans' = find_scans + 1
    /\ find_devices' = ds
    /\ IF FirstMatch(ds) # <<>>
       THEN /\ find_result' = FirstMatch(ds)
            /\ find_pc' = "returned"
       ELSE /\ find_pc' = "sleep"
            /\ UNCHANGED find_result
    /\ UNCHANGED <<sessionVars, scanVars, setVars, find_errors>>

\* BleakScanner.discover raises: `except Exception` prints "Scan error" and
\* the sleep starts.
FindScanRaises ==
    /\ find_pc = "scan"
    /\ find_scans < MaxScans
    /\ find_scans' = find_scans + 1
    /\ find_errors' = find_errors + 1
    /\ find_pc' = "sleep"
    /\ UNCHANGED <<sessionVars, scanVars, setVars, find_devices, find_result>>

\* `await asyncio.sleep(1)` completes and `while True:` starts the next scan.
FindSleep ==
    /\ find_pc = "sleep"
    /\ find_pc' = "scan"
    /\ UNCHANGED <<sessionVars, scanVars, setVars, find_devices, find_scans,
                   find_errors, find_result>>

NextFind ==
    \/ \E ds \in FindScanResults : FindScan(ds)
    \/ FindScanRaises
    \/ FindSleep

\* find_target_device run by the event loop: the scan returns or raises
\* within its timeout and the sleep completes.
SpecFind == InitFind /\ [][NextFind]_vars /\ WF_vars(NextFind)

----------------------------------------------------------------------------
\* Properties of the control loop. An iteration is over when the loop is at
\* its sleep or back at the `while` test; target_temp, drink_temp and writes
\* are then those of that iteration.

IterationOver == pc \in {"sleep", "loop"} /\ iter >= 1

BothRead == IsNumber(drink_temp) /\ IsNumber(target_temp)

\* The one acknowledged write of 50.0 (bytes 88 13) and of 0.0 (bytes 00 00).
OneHeatWrite == <<[data |-> <<136, 19>>, response |-> TRUE]>>
OneOffWrite == <<[data |-> <<0, 0>>, response |-> TRUE]>>

\* C1 as stated: an iteration that read a measured value below 40.0 and a
\* setpoint other than 50.0 issues exactly one write, of 50.0; and an
\* iteration that follows such a write, reads the written bytes back as the
\* setpoint and reads a measured value below 40.0 issues no write.
C1_ColdWritesOnce ==
    /\ (IterationOver /\ BothRead /\ drink_temp.val < 4000
          /\ target_temp.val # 5000)
       => writes = OneHeatWrite
    /\ (IterationOver /\ BothRead /\ drink_temp.val < 4000
          /\ prevWrites = OneHeatWrite /\ target_value = prevWrites[1].data)
       => writes = <<>>

\* C1 amended: the same, for a setpoint characteristic that advertises
\* "write" (acknowledged write); without that property the iteration issues
\* no write.
C1_ColdWritesOnceIfWritable ==
    /\ (IterationOver /\ BothRead /\ drink_temp.val < 4000
          /\ target_temp.val # 5000)
       => writes = IF "write" \in target_char THEN OneHeatWrite ELSE <<>>
    /\ (IterationOver /\ BothRead /\ drink_temp.val < 4000
          /\ prevWrites = OneHeatWrite /\ target_value = prevWrites[1].data)
       => writes = <<>>

\* An iteration wrote 50.0, the next one read the bytes back with the drink
\* still cold and wrote nothing.
C1_Witness ==
    /\ IterationOver /\ iter >= 2 /\ BothRead
    /\ drink_temp.val < 4000
    /\ prevWrites = OneHeatWrite
    /\ target_value = <<136, 19>>
    /\ writes = <<>>

\* C2: an iteration that read a measured value above 40.0 and a setpoint
\* other than 0.0 issues exactly one write, of 0.0.
C2_WarmWritesOffOnce ==
    (IterationOver /\ BothRead /\ drink_temp.val > 4000 /\ target_temp.val # 0)
    => writes = OneOffWrite

\* The iteration before heated (wrote 50.0), this one read a warm drink and
\* wrote 0.0 once.
C2_Witness ==
    /\ IterationOver /\ BothRead
    /\ drink_temp.val > 4000
    /\ target_temp.val = 5000
    /\ prevWrites = OneHeatWrite
    /\ writes = OneOffWrite

\* The setpoint an iteration wants, from the measured value it read: 5000
\* below 40.0, 0 above, none (-1) at 40.0.
DesiredFor(dt) ==
    IF dt.val < 4000 THEN 5000 ELSE IF dt.val > 4000 THEN 0 ELSE -1

\* A write is issued only for a desired setpoint that differs from the
\* setpoint read in the same iteration, and it is the write of that setpoint.
WriteOnlyOnDifference ==
    writes # <<>> =>
        /\ BothRead
        /\ DesiredFor(drink_temp) # -1
        /\ target_temp.val # DesiredFor(drink_temp)
        /\ writes = IF DesiredFor(drink_temp) = 5000 THEN OneHeatWrite
                    ELSE OneOffWrite

\* C3 as stated: a write only on a difference from the setpoint read in the
\* iteration; and the iteration after an out-of-band change that reads a
\* setpoint other than the desired one writes the desired one.
C3_WriteFollowsDeviceSetpoint ==
    /\ WriteOnlyOnDifference
    /\ (IterationOver /\ oob = "seen" /\ BothRead
          /\ DesiredFor(drink_temp) # -1
          /\ target_temp.val # DesiredFor(drink_temp))
       => writes # <<>>

\* C3 amended: the write after an out-of-band change is issued for the
\* heating-off decision always, and for the heating decision when the
\* setpoint characteristic advertises "write".
C3_WriteFollowsDeviceSetpointIfWritable ==
    /\ WriteOnlyOnDifference
    /\ (IterationOver /\ oob = "seen" /\ BothRead
          /\ DesiredFor(drink_temp) # -1
          /\ target_temp.val # DesiredFor(drink_temp)
          /\ (DesiredFor(drink_temp) = 5000 => "write" \in target_char))
       => writes # <<>>

\* An iteration wrote 50.0, the setpoint was then changed on the device
\* during the sleep, and the next iteration wrote 50.0 again.
C3_Witness ==
    /\ IterationOver /\ oob = "seen" /\ BothRead
    /\ prevWrites = OneHeatWrite
    /\ target_temp.val # 5000
    /\ writes = OneHeatWrite

\* C4: disconnect is called once when the connect completed, whatever ended
\* the session, and never when the connect raised; never twice.
C4_DisconnectOncePerConnect ==
    /\ disconnects <= 1
    /\ ~entered => disconnects = 0
    /\ pc = "done" => disconnects = (IF entered THEN 1 ELSE 0)
    /\ (pc = "done" /\ exitCause = "connect_failed") => disconnects = 0

\* A session whose last iteration had a transport error and that was then
\* cancelled ended with one disconnect.
C4_Witness ==
    /\ pc = "done" /\ entered /\ failed /\ exitCause = "cancelled"
    /\ disconnects = 1

\* C5 as stated: a session that has the measured characteristic but not the
\* setpoint characteristic runs the control loop (it ends only on connection
\* loss or cancellation, after at least one iteration), issues no write, and
\* prints the missing-setpoint notice once. The program returns before the
\* loop instead.
C5_LoopRunsWithoutSetpoint ==
    (drink_char # NoChar /\ target_char = NoChar) =>
        /\ writes = <<>>
        /\ notices["target_not_found"] = 1
        /\ pc \in {"aexit", "done"} =>
               (iter >= 1 /\ exitCause \in {"conn_lost", "cancelled"})

\* C6 as stated: three consecutive iterations whose write of one setpoint
\* failed have produced exactly one persistent-fault event. The program
\* prints the failure of each write and has no such event.
C6_PersistentFaultAfterThree ==
    consecFail >= 3 => notices["persistent_fault"] = 1

\* A read was issued and raised in this step (not a cancellation).
ReadFailedStep ==
    /\ cancelled' = cancelled
    /\ Len(reads') > Len(reads)
    /\ \/ pc = "read_target" /\ target_temp' = ErrorTemp
       \/ pc = "read_drink" /\ drink_temp' = ErrorTemp

\* A write was issued and raised in this step.
WriteFailedStep == notices'["write_failed"] > notices["write_failed"]

\* C7: a read or a write that raises does not end the loop or the session:
\* the step goes on to what follows it in the iteration (the write to the
\* sleep), each characteristic is read at most once and at most one write is
\* issued per iteration (no retry), the sleep is followed by the `while`
\* test unless it is cancelled, the test by a new iteration while the
\* connection is up, and a session whose last iteration had a failure ended
\* by connection loss or cancellation only.
C7_FailureAbsorbed ==
    /\ [](/\ Len(writes) <= 1
          /\ reads \in {<<>>, <<"target">>, <<"drink">>, <<"target", "drink">>}
          /\ (failed /\ pc \in {"aexit", "done"})
                => exitCause \in {"conn_lost", "cancelled"})
    /\ [][/\ ReadFailedStep =>
                /\ pc' = (IF pc = "read_target" THEN "read_drink" ELSE "control")
                /\ retval' = retval /\ exitCause' = exitCause
          /\ WriteFailedStep =>
                /\ pc' = "sleep"
                /\ retval' = retval /\ exitCause' = exitCause
          /\ (pc = "sleep" /\ pc' # "sleep") => (pc' = "loop" \/ cancelled')
          /\ (pc = "loop" /\ pc' # "loop" /\ is_connected)
                => pc' = "read_target"]_vars

\* The write of an iteration failed, the loop slept, and the next iteration
\* has started with the connection up.
C7_Witness ==
    /\ pc = "read_target" /\ iter >= 2 /\ is_connected
    /\ consecFail >= 1
    /\ notices["write_failed"] >= 1

\* C8 as stated: an iteration that has a setpoint to write issues an
\* acknowledged write when the characteristic advertises "write", and an
\* unacknowledged one when it advertises only "write-without-response". The
\* program never issues an unacknowledged write.
C8_WriteModality ==
    (IterationOver /\ Decision(drink_temp, target_temp) # "none") =>
        /\ "write" \in target_char =>
               (Len(writes) = 1 /\ writes[1].response)
        /\ ("write" \notin target_char
              /\ "write-without-response" \in target_char) =>
               (Len(writes) = 1 /\ ~writes[1].response)

\* C9 as stated: with neither "write" nor "write-without-response" no write
\* call is issued for either decision, and the notice is printed at most once
\* in the session. The heating-off branch writes without looking at the
\* properties, and the heating branch prints its notice in every iteration.
C9_NoWriteWithoutModality ==
    (target_char # NoChar /\ "write" \notin target_char
       /\ "write-without-response" \notin target_char) =>
        /\ writes = <<>>
        /\ notices["no_write_support"] <= 1

\* The sightings of address a, in the order they were observed.
SightingsOf(a) == SelectSeq(observed, LAMBDA o : o.address = a)

\* The entries of the device list for address a.
EntriesOf(a) == SelectSeq(devices, LAMBDA e : e.address = a)

\* C10 as stated: an address observed twice with different names has exactly
\* one entry, with the latest name and the earliest first-seen time. The
\* program keeps the name of the first sighting.
C10_LatestNameEarliestTime ==
    \A a \in Addresses :
        LET so == SightingsOf(a)
        IN  (Len(so) >= 2 /\ so[1].name # so[Len(so)].name) =>
                /\ Len(EntriesOf(a)) = 1
                /\ EntriesOf(a)[1].name = DisplayName(so[Len(so)].name)
                /\ EntriesOf(a)[1].discovered = so[1].time

----------------------------------------------------------------------------
\* Properties of set_target_temperature and of the decoding.

\* abs(n / 100.0 - k / 100) <= 0.01 as the doubles compare, for hundredths
\* k >= 1 and n: the doubles nearest to k/100, n/100 and 0.01 are
\* (k + e_k / 2^s_k) / 100, (n + e_n / 2^s_n) / 100 and (1 + e_1 / 2^s_1) / 100,
\* and the difference of two neighbours is exact.
WithinHundredth(k, n) ==
    LET scaledErr(j) == RoundErr(j) * 2 ^ (SigBits(1) - SigBits(j))
    IN  IF n = k THEN TRUE
        ELSE IF n = 0 THEN k = 1
        ELSE IF n = k - 1 THEN scaledErr(k) - scaledErr(n) <= RoundErr(1)
        ELSE IF n = k + 1 THEN scaledErr(n) - scaledErr(k) <= RoundErr(1)
        ELSE FALSE

\* The argument of the last call is an in-range temperature: a multiple of
\* 0.01 from 0.00 to 100.00.
InRangeArgument ==
    /\ temperature_celsius % 10 = 0
    /\ temperature_celsius >= 0
    /\ temperature_celsius <= 10 * MaxCenti

\* C11 as stated: for every in-range temperature v, written by
\* set_target_temperature's encoding and decoded under the same byte order
\* (little or big), the decoded value is within 0.01 of v. int() truncates,
\* so the value can come back one hundredth low, and for 0.58, 1.14, 1.15 and
\* 1.16 the two doubles are more than 0.01 apart.
C11_RoundTripWithinHundredth ==
    (set_pc = "ready" /\ set_calls = 1 /\ set_result = "True"
       /\ InRangeArgument /\ temperature_celsius > 0)
    => WithinHundredth(temperature_celsius \div 10, read_back)

\* C12 as stated: a call whose argument is negative, or whose argument times
\* 100 is above 65535, returns False, issues no write and changes nothing on
\* the device. An argument between -0.01 and 0 is truncated to 0 and written,
\* one between 655.35 and 655.36 is truncated to 65535 and written.
C12_RejectsOutOfRange ==
    [][(set_calls' = set_calls + 1
          /\ (temperature_celsius' < 0 \/ temperature_celsius' > 655350))
       => (/\ set_result' = "False"
           /\ set_writes' = set_writes
           /\ set_device' = set_device)]_vars

----------------------------------------------------------------------------
\* Properties of the session's end and of its error handling.

\* C13: once CancelledError has been delivered at an await of the loop (a
\* read, the write, the sleep) the loop is left: no iteration starts, no read
\* and no write is issued and the device is not written any more; the next
\* thing the session does is the disconnect, and connect_and_monitor then
\* returns, with the disconnect made once.
C13_CancelStopsAndDisconnects ==
    /\ []((cancelled /\ entered) =>
            /\ pc \in {"aexit", "done"}
            /\ exitCause = "cancelled"
            /\ pc = "aexit" => disconnects = 0
            /\ pc = "done" => disconnects = 1)
    /\ [][cancelled =>
            /\ iter' = iter /\ reads' = reads /\ writes' = writes
            /\ devTarget' = devTarget]_vars
    /\ [][(pc \in LoopPcs /\ cancelled') =>
            (pc' = "aexit" /\ iter' = iter)]_vars
    /\ (cancelled /\ entered) ~>
            (pc = "done" /\ disconnects = 1 /\ retval \in {"True", "False"})

\* The second iteration was cancelled while its write of 50.0 was
\* outstanding; the session was disconnected and True was returned.
C13_Witness ==
    /\ pc = "done" /\ cancelled /\ entered
    /\ iter = 2 /\ ~failed
    /\ writes = OneHeatWrite /\ devTarget # <<136, 19>>
    /\ disconnects = 1 /\ retval = "True"

\* C14 as stated: a session in which the lookup found neither characteristic
\* starts no iteration, issues no read and no write, is disconnected once and
\* returns True. When the disconnect raises, the program returns False.
C14_NoCharacteristicsReturnsTrue ==
    (entered /\ resolutions = 1 /\ target_char = NoChar /\ drink_char = NoChar)
    => /\ iter = 0 /\ reads = <<>> /\ writes = <<>>
       /\ pc \in {"aexit", "done"}
       /\ pc = "done" => (disconnects = 1 /\ retval = "True")

\* C15: an iteration that read a measured value of exactly 40.0 issues no
\* write, whatever setpoint it read.
C15_NoWriteAtThreshold ==
    (pc \in {"control", "sleep", "loop"} /\ iter >= 1
       /\ drink_temp.isnum /\ drink_temp.val = 4000)
    => writes = <<>>

\* An iteration read 40.0 and a setpoint of 60.0, which is neither 50.0 nor
\* 0.0, on a writable characteristic, and wrote nothing.
C15_Witness ==
    /\ pc = "sleep" /\ iter >= 1
    /\ drink_temp.isnum /\ drink_temp.val = 4000
    /\ target_temp.isnum /\ target_temp.val = 6000
    /\ "write" \in target_char
    /\ writes = <<>>

\* C16: while client.is_connected is false no iteration starts; the `while`
\* test that finds it false ends the loop and True is to be returned; no
\* write is issued between the end of an iteration and the end of the
\* session; and a loop whose connection is lost leads to the return of
\* connect_and_monitor.
C16_LossStopsLoop ==
    /\ [][~is_connected => iter' = iter]_vars
    /\ [][(pc = "loop" /\ ~is_connected /\ pc' # pc) =>
            (pc' = "aexit" /\ retval' = "True")]_vars
    /\ [][(~is_connected /\ pc \in {"sleep", "loop", "aexit", "done"}) =>
            writes' = writes]_vars
    /\ (pc \in LoopPcs /\ ~is_connected) ~>
            (pc = "done" /\ retval \in {"True", "False"})

\* The connection was lost in the second iteration, a read raised, the loop
\* ended at its test and the session returned True after the disconnect.
C16_Witness ==
    /\ pc = "done" /\ exitCause = "conn_lost"
    /\ iter = 2 /\ failed
    /\ disconnects = 1 /\ retval = "True"

\* The value recorded for a read that raised or that was not made.
Unreadable == {ErrorTemp, NotReadable}

\* C17: a read step that is not cancelled goes on to what follows it; it
\* records "Not readable" without a read when the characteristic has no
\* "read" property, and "Error" or the decoded bytes when a read was issued.
\* An iteration in which either value is recorded as unreadable issues no
\* write, prints no write notice and goes on to the sleep, and the sleep to
\* the `while` test.
C17_UnreadableSkipsWrite ==
    /\ []((pc \in {"control", "sleep", "loop"} /\ iter >= 1
             /\ (drink_temp \in Unreadable \/ target_temp \in Unreadable))
          => writes = <<>>)
    /\ [][(pc = "read_drink" /\ pc' # pc /\ ~cancelled') =>
            /\ pc' = "control"
            /\ IF "read" \in drink_char
               THEN /\ Len(reads') = Len(reads) + 1
                    /\ drink_temp' \in {ErrorTemp, DecodeTemp(devDrink)}
               ELSE reads' = reads /\ drink_temp' = NotReadable]_vars
    /\ [][(pc = "read_target" /\ pc' # pc /\ ~cancelled') =>
            /\ pc' = "read_drink"
            /\ IF "read" \in target_char
               THEN /\ Len(reads') = Len(reads) + 1
                    /\ target_temp' \in {ErrorTemp, DecodeTemp(devTarget)}
               ELSE reads' = reads /\ target_temp' = NotReadable]_vars
    /\ [][(pc = "control" /\ pc' # pc
             /\ (drink_temp \in Unreadable \/ target_temp \in Unreadable)) =>
            /\ pc' = "sleep"
            /\ writes' = writes /\ devTarget' = devTarget
            /\ notices' = notices /\ retval' = retval]_vars
    /\ [][(pc = "sleep" /\ pc' # pc /\ ~cancelled') => pc' = "loop"]_vars

\* The read of the measured value raised in an iteration that read a
\* setpoint of 60.0 on a writable characteristic; nothing was written and the
\* next iteration has started.
C17_Witness ==
    /\ pc = "read_target" /\ iter >= 2 /\ is_connected
    /\ drink_temp = ErrorTemp
    /\ target_temp.isnum /\ target_temp.val = 6000
    /\ "write" \in target_char
    /\ prevWrites = <<>>

\* C18: the characteristic lookup runs at most once in a session, after the
\* connect and before the first iteration; the loop runs only after it has
\* run; and from then on the two characteristics and their property sets do
\* not change.
C18_ResolvedOnce ==
    /\ [](/\ resolutions <= 1
          /\ (pc \in LoopPcs \/ iter >= 1) =>
                 (resolutions = 1 /\ target_char # NoChar /\ drink_char # NoChar)
          /\ resolutions = 0 => (target_char = NoChar /\ drink_char = NoChar))
    /\ [][resolutions' # resolutions =>
            (entered /\ is_connected /\ iter = 0 /\ resolutions' = 1)]_vars
    /\ [][resolutions >= 1 =>
            (target_char' = target_char /\ drink_char' = drink_char)]_vars

\* The third iteration of a session runs on the characteristics the one
\* lookup found.
C18_Witness ==
    /\ pc = "sleep" /\ iter = 3
    /\ resolutions = 1
    /\ target_char = {"read", "write"} /\ drink_char = {"read"}

----------------------------------------------------------------------------
\* Properties of the two discovery loops.

\* The scan result ds holds a device with the target address.
HasTarget(ds) == \E i \in DOMAIN ds : ds[i].address = TARGET_DEVICE_ADDRESS

\* C19: find_target_device has returned exactly when a device is returned,
\* and that device has the target address and is the first one with it in
\* the last scan result; it returns only from a scan whose result holds the
\* target; a scan that raised or whose result does not hold the target is
\* followed by the sleep, with nothing returned, and the sleep by the next
\* scan.
C19_RetriesUntilTarget ==
    /\ [](/\ find_pc = "returned" <=> find_result # <<>>
          /\ find_result # <<>> =>
                /\ Len(find_result) = 1
                /\ find_result[1].address = TARGET_DEVICE_ADDRESS
                /\ \E i \in DOMAIN find_devices :
                      /\ find_devices[i] = find_result[1]
                      /\ ~HasTarget(SubSeq(find_devices, 1, i - 1)))
    /\ [][(find_pc' = "returned" /\ find_pc # "returned") =>
            (find_pc = "scan" /\ HasTarget(find_devices'))]_vars
    /\ [][(find_scans' = find_scans + 1
             /\ (find_errors' # find_errors \/ ~HasTarget(find_devices'))) =>
            (find_pc' = "sleep" /\ find_result' = <<>>)]_vars
    /\ [][(find_pc = "sleep" /\ find_pc' # find_pc) => find_pc' = "scan"]_vars
    /\ \A n \in 0..(MaxScans - 1) :
          (find_pc = "sleep" /\ find_scans = n) ~> (find_scans = n + 1)

\* One scan raised, one did not hold the target, and the third returned the
\* target, which came second in its result after the address in lower case.
C19_Witness ==
    /\ find_pc = "returned"
    /\ find_scans = 3 /\ find_errors = 1
    /\ Len(find_devices) = 2
    /\ find_devices[1].address = "c0aff08d-f255-248a-1317-30de4080e377"
    /\ find_result = <<find_devices[2]>>

\* The addresses of the entries of a device list.
AddressesIn(devs) == {devs[i].address : i \in DOMAIN devs}

\* At most one entry per address.
OneEntryPerAddress(devs) ==
    \A i, j \in DOMAIN devs : devs[i].address = devs[j].address => i = j

\* Every entry of a is in b at the same position.
KeepsEntries(a, b) ==
    /\ Len(a) <= Len(b)
    /\ \A i \in DOMAIN a : b[i].address = a[i].address

\* C20: the device list has at most one entry per address and its addresses
\* are those of seen_addresses; a step keeps every entry at its position; and
\* the same holds for what the loop over a scan result makes of the list, for
\* every scan result.
C20_ListKeepsEntries ==
    /\ [](/\ OneEntryPerAddress(devices)
          /\ AddressesIn(devices) = seen_addresses
          /\ \A current_devices \in ScanResults :
                LET merged == AddNewDevices(devices, seen_addresses,
                                            current_devices, now)
                IN  /\ KeepsEntries(devices, merged[1])
                    /\ OneEntryPerAddress(merged[1])
                    /\ AddressesIn(merged[1]) = merged[2])
    /\ [][KeepsEntries(devices, devices')]_vars

\* A scan reported three devices, two of them with one address; the list has
\* two entries.
C20_Witness ==
    /\ scan_pc = "menu"
    /\ Len(observed) = 3
    /\ Len(devices) = 2
    /\ observed[1].address = observed[3].address

\* C21: while the menu is shown the list is not empty and the cursor is an
\* index of it; what the menu returned is None or an entry of the list; the
\* list is not changed by the menu; a return with an entry is made on Enter,
\* with the entry at the cursor, or on a digit that is an index, with the
\* entry at that index; q always returns None; and a key that returns
\* nothing leaves the cursor where it was unless it is w/up or s/down.
C21_MenuSelectionInList ==
    /\ [](/\ scan_pc = "menu" =>
                (devices # <<>> /\ selected_index \in 0..(Len(devices) - 1))
          /\ scan_pc = "returned" =>
                \/ menu_result = <<>>
                \/ /\ Len(menu_result) = 1
                   /\ \E i \in DOMAIN devices : devices[i] = menu_result[1])
    /\ [][scan_pc = "menu" => devices' = devices]_vars
    /\ [][(scan_pc = "menu" /\ scan_pc' = "returned" /\ menu_result' # <<>>) =>
            \/ /\ key' \in {"\r", "\n"}
               /\ menu_result' = <<devices[selected_index + 1]>>
            \/ /\ key' \in {"0", "1", "2", "3", "4", "5", "6", "7", "8", "9"}
               /\ \E d \in 0..(Len(devices) - 1) :
                     /\ key' = ToString(d)
                     /\ menu_result' = <<devices[d + 1]>>]_vars
    /\ [][(scan_pc = "menu" /\ key' = "q" /\ <<key, scan_pc>>' # <<key, scan_pc>>)
            => (scan_pc' = "returned" /\ menu_result' = <<>>)]_vars
    /\ [][(scan_pc = "menu" /\ scan_pc' = "menu"
             /\ key' \notin {"w", "up", "s", "down"}) =>
            selected_index' = selected_index]_vars

\* The cursor was moved down to the second of two entries and Enter returned
\* that entry.
C21_Witness ==
    /\ scan_pc = "returned"
    /\ key = "\r"
    /\ Len(devices) = 2
    /\ selected_index = 1
    /\ menu_result = <<devices[2]>>

----------------------------------------------------------------------------
\* Properties of the bytes written and of the order of the transport calls.

\* C22: the bytes of a write, decoded as the loop decodes the setpoint it
\* reads, are the setpoint the decision compares with: 50.0 for the heating
\* write and 0.0 for the heating-off write, the one the measured value of the
\* iteration asks for; and an iteration that reads back the bytes the
\* iteration before wrote, with a measured value that asks for the same
\* setpoint, issues no write.
C22_WrittenBytesDecodeToSetpoint ==
    /\ DecodeTemp(WriteBytes("heat")).val = 5000
    /\ DecodeTemp(WriteBytes("off")).val = 0
    /\ (IterationOver /\ writes # <<>>) =>
          DecodeTemp(writes[1].data).val = DesiredFor(drink_temp)
    /\ (IterationOver /\ drink_temp.isnum /\ target_temp.isnum
          /\ prevWrites # <<>> /\ target_value = prevWrites[1].data
          /\ DesiredFor(drink_temp) = DecodeTemp(prevWrites[1].data).val)
       => writes = <<>>

\* An iteration switched the heating off, the next one read 00 00 back with
\* the drink still warm and wrote nothing.
C22_Witness ==
    /\ IterationOver /\ iter >= 2
    /\ drink_temp.isnum /\ drink_temp.val > 4000
    /\ prevWrites = OneOffWrite
    /\ target_value = <<0, 0>> /\ target_temp.isnum /\ target_temp.val = 0
    /\ writes = <<>>

\* C23: a read or a write is issued only in a session whose connect has
\* returned and whose disconnect has not been called; after the disconnect
\* the reads and writes recorded do not change; an iteration issues at most
\* one write, from the control step, after both of its reads were issued and
\* have returned; and an iteration starts only from the `while` test, when
\* the iteration before is over.
C23_TransportCallsInsideSession ==
    /\ [](Len(writes) <= 1)
    /\ [][(Len(reads') > Len(reads) \/ Len(writes') > Len(writes)) =>
            /\ entered /\ disconnects = 0 /\ disconnects' = 0
            /\ pc \in {"read_target", "read_drink", "control"}]_vars
    /\ [][disconnects >= 1 => (reads' = reads /\ writes' = writes)]_vars
    /\ [][Len(writes') > Len(writes) =>
            /\ pc = "control"
            /\ reads = <<"target", "drink">>
            /\ writes = <<>>]_vars
    /\ [][iter' # iter =>
            (pc = "loop" /\ iter' = iter + 1 /\ reads' = <<>> /\ writes' = <<>>)]_vars

\* A session of two iterations, the second of which read both values and
\* switched the heating off, has ended by connection loss and was
\* disconnected once.
C23_Witness ==
    /\ pc = "done" /\ entered /\ exitCause = "conn_lost"
    /\ iter = 2
    /\ reads = <<"target", "drink">> /\ writes = OneOffWrite
    /\ disconnects = 1

====
